---- MODULE Spec2Model ----
(***************************************************************************)
(* Model of noxfile.py: the temporary_filename context manager, the        *)
(* install_with_constraints helper, the eight nox sessions built on them   *)
(* and the sequential execution of the selected sessions.                  *)
(*                                                                         *)
(* A session body is a straight-line program of steps.  The state holds    *)
(* the position in that program, the stack of active temporary_filename    *)
(* frames, the exception in flight, the files on disk and the log of the   *)
(* steps executed so far.                                                  *)
(***************************************************************************)
EXTENDS Integers, Sequences, FiniteSets, TLC

\* ------------------------------------------------------------- bounds
\* Longest list of session names given on the command line.
MaxNames == 2
\* Number of distinct names the temp directory can hand out.
NumPaths == 3

Paths == 1..NumPaths

\* ------------------------------------------------- module-level values
\* noxfile.py:13
package == "hypermodern_python"

\* noxfile.py:14
nox_options_sessions == <<"lint", "safety", "mypy", "tests">>

\* Fault injection: the default locations in another order.
locations_sorted == <<"docs/conf.py", "noxfile.py", "src", "tests">>

\* noxfile.py:15
locations == <<"src", "tests", "noxfile.py", "docs/conf.py">>

\* The @nox.session registrations, in source order.
Registry == <<"black", "lint", "safety", "mypy", "tests", "typeguard", "xdoctest", "docs">>

SessionNames == {Registry[i] : i \in 1..Len(Registry)}

\* Trailing arguments an invocation may carry (session.posargs).
PosargChoices == {<<>>, <<"src">>, <<"-x", "tests">>}

\* ------------------------------------------------------------ helpers
RECURSIVE SeqsUpTo(_, _)
SeqsUpTo(S, n) ==
    IF n = 0 THEN {<<>>}
    ELSE LET shorter == SeqsUpTo(S, n - 1)
         IN  shorter \cup {Append(s, x) : s \in shorter, x \in S}

\* `x or y` on sequences: the first operand unless it is empty.
Or(x, y) == IF x # <<>> THEN x ELSE y

\* The f-string placeholder that is bound to the enclosing `filename`.
OutputArg == "--output={filename}"
ConstraintArg == "--constraint={filename}"
FileArg == "--file={filename}"
FilenameArgs == {OutputArg, ConstraintArg, FileArg}

Step(op, argv) == [op |-> op, argv |-> argv]

\* session.run(..., external=True)
RunExternal(argv) == Step("run_external", argv)
\* session.install(...)
SessionInstall(argv) == Step("install", argv)
\* session.run(...)
SessionRun(argv) == Step("run", argv)

\* Fault injection: the scratch file is never unlinked on the normal path.
temporary_filename_no_unlink(body) ==
    <<Step("create", <<>>), Step("bind", <<>>)>> \o body

\* ------------------------------------------------- temporary_filename
\* noxfile.py:33-39: try: create, bind and close, yield to the body;
\* finally: unlink.
temporary_filename(body) ==
    <<Step("create", <<>>), Step("bind", <<>>)>> \o body \o <<Step("unlink", <<>>)>>

\* Fault injection: the manifest is created without a scope that removes it.
install_with_constraints_kept(args) ==
    << Step("create", <<>>), Step("bind", <<>>),
       RunExternal(<<"poetry", "export", "--dev", "--format=requirements.txt", OutputArg>>),
       SessionInstall(<<ConstraintArg>> \o args) >>

\* Fault injection: the installer is invoked a second time.
install_with_constraints_twice(args) ==
    temporary_filename(
        << RunExternal(<<"poetry", "export", "--dev", "--format=requirements.txt", OutputArg>>),
           SessionInstall(<<ConstraintArg>> \o args),
           SessionInstall(<<ConstraintArg>> \o args) >>)

\* ------------------------------------------- install_with_constraints
install_with_constraints(args) ==
    temporary_filename(
        << RunExternal(<<"poetry", "export", "--dev", "--format=requirements.txt", OutputArg>>),
           SessionInstall(<<ConstraintArg>> \o args) >>)

\* ----------------------------------------------------------- sessions
\* Fault injection: black always runs on the default locations.
black_ignores_posargs(posargs) ==
    install_with_constraints(<<"black">>) \o <<SessionRun(<<"black">> \o locations)>>

black(posargs) ==
    LET args == Or(posargs, locations)
    IN  install_with_constraints(<<"black">>) \o <<SessionRun(<<"black">> \o args)>>

lint(posargs) ==
    LET args == Or(posargs, locations)
    IN  install_with_constraints(
            <<"flake8", "flake8-annotations", "flake8-bandit", "flake8-black",
              "flake8-bugbear", "flake8-docstrings", "flake8-import-order", "darglint">>)
        \o <<SessionRun(<<"flake8">> \o args)>>

safety(posargs) ==
    temporary_filename(
        << RunExternal(<<"poetry", "export", "--dev", "--format=requirements.txt",
                         "--without-hashes", OutputArg>>) >>
        \o install_with_constraints(<<"safety">>)
        \o << SessionRun(<<"safety", "check", FileArg, "--full-report">>) >>)

mypy(posargs) ==
    LET args == Or(posargs, locations)
    IN  install_with_constraints(<<"mypy">>) \o <<SessionRun(<<"mypy">> \o args)>>

\* Fault injection: pytest is started before its packages are installed.
tests_command_first(posargs) ==
    LET args == Or(posargs, <<"--cov", "-m", "not e2e">>)
    IN  <<RunExternal(<<"poetry", "install", "--no-dev">>)>>
        \o <<SessionRun(<<"pytest">> \o args)>>
        \o install_with_constraints(<<"coverage[toml]", "pytest", "pytest-cov", "pytest-mock">>)

tests(posargs) ==
    LET args == Or(posargs, <<"--cov", "-m", "not e2e">>)
    IN  <<RunExternal(<<"poetry", "install", "--no-dev">>)>>
        \o install_with_constraints(<<"coverage[toml]", "pytest", "pytest-cov", "pytest-mock">>)
        \o <<SessionRun(<<"pytest">> \o args)>>

typeguard(posargs) ==
    LET args == Or(posargs, <<"-m", "not e2e">>)
    IN  <<RunExternal(<<"poetry", "install", "--no-dev">>)>>
        \o install_with_constraints(<<"pytest", "pytest-mock", "typeguard">>)
        \o <<SessionRun(<<"pytest", "--typeguard-packages=hypermodern_python">> \o args)>>

\* Fault injection: the project is installed after the constrained tools.
xdoctest_install_last(posargs) ==
    LET args == Or(posargs, <<"all">>)
    IN  install_with_constraints(<<"xdoctest">>)
        \o <<RunExternal(<<"poetry", "install", "--no-dev">>)>>
        \o <<SessionRun(<<"python", "-m", "xdoctest", package>> \o args)>>

xdoctest(posargs) ==
    LET args == Or(posargs, <<"all">>)
    IN  <<RunExternal(<<"poetry", "install", "--no-dev">>)>>
        \o install_with_constraints(<<"xdoctest">>)
        \o <<SessionRun(<<"python", "-m", "xdoctest", package>> \o args)>>

docs(posargs) ==
    <<RunExternal(<<"poetry", "install", "--no-dev">>)>>
    \o install_with_constraints(<<"sphinx", "sphinx-autodoc-typehints">>)
    \o <<SessionRun(<<"sphinx-build", "docs", "docs/_build">>)>>

\* The function a registered name stands for.
Program(name, posargs) ==
    CASE name = "black" -> black(posargs)
      [] name = "lint" -> lint(posargs)
      [] name = "safety" -> safety(posargs)
      [] name = "mypy" -> mypy(posargs)
      [] name = "tests" -> tests(posargs)
      [] name = "typeguard" -> typeguard(posargs)
      [] name = "xdoctest" -> xdoctest(posargs)
      [] name = "docs" -> docs(posargs)

\* ------------------------------------------------------------- runner
\* Fault injection: without names every registered session is selected.
SelectSessionsAll(explicit_names) == Or(explicit_names, Registry)

\* The sessions an invocation selects: the names given, else the defaults.
SelectSessions(explicit_names) == Or(explicit_names, nox_options_sessions)

\* -------------------------------------------------------------- state
VARIABLES
    names,      \* session names given on the command line
    posargs,    \* trailing arguments of the invocation
    runner,     \* "running", "done" or "interrupted"
    queue,      \* selected sessions not yet started
    results,    \* <<[name, ok]>> of the sessions that ended, in order
    cur,        \* the session being run, or "none"
    pc,         \* index of the next step of the running session
    scopes,     \* stack of temporary_filename frames: [f, tmp_name]
    exc,        \* the exception in flight (or the one the session ended with)
    fs,         \* content of each temp path on disk, "absent" if none
    log         \* the steps the current (or last) session executed

vars == <<names, posargs, runner, queue, results, cur, pc, scopes, exc, fs, log>>

NoExc == [type |-> "none", at |-> 0]

Init ==
    /\ names \in SeqsUpTo(SessionNames, MaxNames)
    /\ posargs \in PosargChoices
    /\ runner = "running"
    /\ queue = SelectSessions(names)
    /\ results = <<>>
    /\ cur = "none"
    /\ pc = 1
    /\ scopes = <<>>
    /\ exc = NoExc
    /\ fs = [p \in Paths |-> "absent"]
    /\ log = <<>>

prog == Program(cur, posargs)
Running == cur # "none"
Normal == Running /\ exc.type = "none" /\ pc <= Len(prog)
instr == prog[pc]
Top == scopes[Len(scopes)]
Pop(s) == SubSeq(s, 1, Len(s) - 1)
Live == {p \in Paths : fs[p] # "absent"}

\* The file a step's {filename} placeholder is bound to.
BoundFile(argv) ==
    IF \E i \in 1..Len(argv) : argv[i] \in FilenameArgs THEN Top.tmp_name ELSE {}

Entry(op, argv, file, err) == [op |-> op, argv |-> argv, file |-> file, err |-> err, at |-> pc]

Raise(type) == [type |-> type, at |-> pc]

\* ---------------------------------------------------- StartSession
\* The runner takes the next selected session and calls its function.
StartSession ==
    /\ runner = "running"
    /\ cur = "none"
    /\ queue # <<>>
    /\ cur' = Head(queue)
    /\ queue' = Tail(queue)
    /\ pc' = 1
    /\ scopes' = <<>>
    /\ exc' = NoExc
    /\ log' = <<>>
    /\ UNCHANGED <<names, posargs, runner, results, fs>>

\* Fault injection: the temporary name is not checked against the files
\* that exist, so a live scratch file can be truncated and reused.
CreateAnyPath ==
    /\ Normal
    /\ instr.op = "create"
    /\ \/ \E p \in Paths :
            /\ fs' = [fs EXCEPT ![p] = "empty"]
            /\ scopes' = Append(scopes, [f |-> {p}, tmp_name |-> {}])
            /\ log' = Append(log, Entry("create", <<>>, {p}, "none"))
            /\ pc' = pc + 1
            /\ exc' = exc
       \/ /\ fs' = fs
          /\ scopes' = Append(scopes, [f |-> {}, tmp_name |-> {}])
          /\ log' = Append(log, Entry("create", <<>>, {}, "OSError"))
          /\ pc' = pc
          /\ exc' = Raise("OSError")
    /\ UNCHANGED <<names, posargs, runner, queue, results, cur>>

\* ---------------------------------------------------------- Create
\* noxfile.py:33-34: enter the try block and call NamedTemporaryFile
\* (delete=False).  It creates an empty file under a name not in use, or
\* raises OSError leaving nothing behind; tmp_name is not bound yet.
Create ==
    /\ Normal
    /\ instr.op = "create"
    /\ \/ \E p \in Paths \ Live :
            /\ fs' = [fs EXCEPT ![p] = "empty"]
            /\ scopes' = Append(scopes, [f |-> {p}, tmp_name |-> {}])
            /\ log' = Append(log, Entry("create", <<>>, {p}, "none"))
            /\ pc' = pc + 1
            /\ exc' = exc
       \/ /\ fs' = fs
          /\ scopes' = Append(scopes, [f |-> {}, tmp_name |-> {}])
          /\ log' = Append(log, Entry("create", <<>>, {}, "OSError"))
          /\ pc' = pc
          /\ exc' = Raise("OSError")
    /\ UNCHANGED <<names, posargs, runner, queue, results, cur>>

\* ------------------------------------------------------------ Bind
\* noxfile.py:35-37: tmp_name = f.name; f.close(); yield tmp_name.
Bind ==
    /\ Normal
    /\ instr.op = "bind"
    /\ scopes' = [scopes EXCEPT ![Len(scopes)].tmp_name = Top.f]
    /\ log' = Append(log, Entry("bind", <<>>, Top.f, "none"))
    /\ pc' = pc + 1
    /\ UNCHANGED <<names, posargs, runner, queue, results, cur, exc, fs>>

\* Fault injection: a non-zero exit is logged but not raised.
OutcomeIgnoresFailure(op, argv, file, ok) ==
    /\ log' = Append(log, Entry(op, argv, file, IF ok THEN "none" ELSE "CommandFailed"))
    /\ pc' = pc + 1
    /\ exc' = exc

\* Fault injection: a step that exits non-zero is run again.
OutcomeRetries(op, argv, file, ok) ==
    /\ log' = Append(log, Entry(op, argv, file, IF ok THEN "none" ELSE "CommandFailed"))
    /\ pc' = IF ok THEN pc + 1 ELSE pc
    /\ exc' = exc

\* An external process either exits 0 or nox raises CommandFailed.
Outcome(op, argv, file, ok) ==
    /\ log' = Append(log, Entry(op, argv, file, IF ok THEN "none" ELSE "CommandFailed"))
    /\ pc' = IF ok THEN pc + 1 ELSE pc
    /\ exc' = IF ok THEN exc ELSE Raise("CommandFailed")

IsExport(i) == i.op = "run_external" /\ i.argv[2] = "export"
IsPoetryInstall(i) == i.op = "run_external" /\ i.argv[2] = "install"

ExportContent(argv) ==
    IF \E i \in 1..Len(argv) : argv[i] = "--without-hashes"
    THEN "requirements without hashes" ELSE "requirements"

\* ---------------------------------------------------------- Export
\* session.run("poetry", "export", ..., f"--output={filename}",
\* external=True): on success the manifest is written to filename.
Export ==
    /\ Normal
    /\ IsExport(instr)
    /\ \E ok \in BOOLEAN :
        LET file == BoundFile(instr.argv)
        IN  /\ Outcome("export", instr.argv, file, ok)
            /\ fs' = IF ok THEN [p \in Paths |-> IF p \in file THEN ExportContent(instr.argv)
                                                  ELSE fs[p]]
                     ELSE fs
    /\ UNCHANGED <<names, posargs, runner, queue, results, cur, scopes>>

\* --------------------------------------------------- PoetryInstall
\* session.run("poetry", "install", "--no-dev", external=True)
PoetryInstall ==
    /\ Normal
    /\ IsPoetryInstall(instr)
    /\ \E ok \in BOOLEAN : Outcome("poetry_install", instr.argv, {}, ok)
    /\ UNCHANGED <<names, posargs, runner, queue, results, cur, scopes, fs>>

\* --------------------------------------------------------- Install
\* session.install(f"--constraint={filename}", *args): the installer
\* reads the constraint file, so it cannot succeed without one.
Install ==
    /\ Normal
    /\ instr.op = "install"
    /\ LET file == BoundFile(instr.argv)
       IN  \E ok \in BOOLEAN :
            /\ ok => file \subseteq Live
            /\ Outcome("install", instr.argv, file, ok)
    /\ UNCHANGED <<names, posargs, runner, queue, results, cur, scopes, fs>>

\* --------------------------------------------------------- Command
\* session.run(<tool>, ...): the session's own command.
Command ==
    /\ Normal
    /\ instr.op = "run"
    /\ LET file == BoundFile(instr.argv)
       IN  \E ok \in BOOLEAN :
            /\ ok => file \subseteq Live
            /\ Outcome("command", instr.argv, file, ok)
    /\ UNCHANGED <<names, posargs, runner, queue, results, cur, scopes, fs>>

\* Fault injection: no try/finally, so an exception passing through the
\* frame leaves without unlinking.
UnlinkSkippedOnError ==
    /\ Running
    /\ \/ Normal /\ instr.op = "unlink"
       \/ exc.type # "none" /\ scopes # <<>>
    /\ LET skip == exc.type # "none"
           err == IF skip THEN "none"
                  ELSE IF Top.tmp_name = {} THEN "UnboundLocalError"
                  ELSE IF ~(Top.tmp_name \subseteq Live) THEN "FileNotFoundError"
                  ELSE "none"
       IN  /\ log' = IF skip THEN log ELSE Append(log, Entry("unlink", <<>>, Top.tmp_name, err))
           /\ fs' = IF err = "none" /\ ~skip
                    THEN [p \in Paths |-> IF p \in Top.tmp_name THEN "absent" ELSE fs[p]]
                    ELSE fs
           /\ exc' = IF err = "none" THEN exc ELSE Raise(err)
           /\ pc' = IF err = "none" /\ exc.type = "none" THEN pc + 1 ELSE pc
    /\ scopes' = Pop(scopes)
    /\ UNCHANGED <<names, posargs, runner, queue, results, cur>>

\* ---------------------------------------------------------- Unlink
\* noxfile.py:38-39: finally: os.unlink(tmp_name).  It runs when the body
\* falls through and when an exception passes through the frame.  An
\* unbound tmp_name raises UnboundLocalError, a missing file raises
\* FileNotFoundError; either replaces the exception in flight.
Unlink ==
    /\ Running
    /\ \/ Normal /\ instr.op = "unlink"
       \/ exc.type # "none" /\ scopes # <<>>
    /\ LET err == IF Top.tmp_name = {} THEN "UnboundLocalError"
                  ELSE IF ~(Top.tmp_name \subseteq Live) THEN "FileNotFoundError"
                  ELSE "none"
       IN  /\ log' = Append(log, Entry("unlink", <<>>, Top.tmp_name, err))
           /\ fs' = IF err = "none"
                    THEN [p \in Paths |-> IF p \in Top.tmp_name THEN "absent" ELSE fs[p]]
                    ELSE fs
           /\ exc' = IF err = "none" THEN exc ELSE Raise(err)
           /\ pc' = IF err = "none" /\ exc.type = "none" THEN pc + 1 ELSE pc
    /\ scopes' = Pop(scopes)
    /\ UNCHANGED <<names, posargs, runner, queue, results, cur>>

\* Fault injection: the runner stops at the first failed session.
NextQueueStopOnError(q, e) == IF e.type # "none" THEN <<>> ELSE q

\* What the runner still has to run after a session ended with e: a failed
\* session does not stop the run, an interrupt does.
NextQueue(q, e) == IF e.type = "KeyboardInterrupt" THEN <<>> ELSE q

\* The exit status of the run: zero iff every session succeeded.
ExitStatus == IF \A i \in 1..Len(results) : results[i].ok THEN 0 ELSE 1

\* ---------------------------------------------------------- Return
\* The session function returns, or its exception reaches the runner,
\* which records the result and goes on; an interrupt ends the run.
Return ==
    /\ Running
    /\ \/ exc.type = "none" /\ pc > Len(prog)
       \/ exc.type # "none" /\ scopes = <<>>
    /\ results' = Append(results, [name |-> cur, ok |-> exc.type = "none"])
    /\ cur' = "none"
    /\ runner' = IF exc.type = "KeyboardInterrupt" THEN "interrupted" ELSE runner
    /\ queue' = NextQueue(queue, exc)
    /\ UNCHANGED <<names, posargs, pc, scopes, exc, fs, log>>

\* ---------------------------------------------------------- Finish
Finish ==
    /\ runner = "running"
    /\ cur = "none"
    /\ queue = <<>>
    /\ runner' = "done"
    /\ UNCHANGED <<names, posargs, queue, results, cur, pc, scopes, exc, fs, log>>

Next ==
    \/ StartSession
    \/ Create
    \/ Bind
    \/ Export
    \/ PoetryInstall
    \/ Install
    \/ Command
    \/ Unlink
    \/ Return
    \/ Finish

Spec == Init /\ [][Next]_vars

\* ------------------------------------------------- environment faults
\* An external actor removes a scratch file while a session runs.
ExternalRemove ==
    /\ Running
    /\ \E p \in Live : fs' = [fs EXCEPT ![p] = "absent"]
    /\ UNCHANGED <<names, posargs, runner, queue, results, cur, pc, scopes, exc, log>>

NextExt == Next \/ ExternalRemove

SpecExt == Init /\ [][NextExt]_vars

\* An asynchronous KeyboardInterrupt is delivered before the next step of
\* the running session.  Delivered inside a finally block before its
\* os.unlink call (late), it abandons that block.
Interrupt ==
    /\ Running
    /\ exc.type # "KeyboardInterrupt"
    /\ \E late \in BOOLEAN :
        /\ late => \/ Normal /\ instr.op = "unlink"
                   \/ exc.type # "none" /\ scopes # <<>>
        /\ ~late => exc.type = "none"
        /\ scopes' = IF late THEN Pop(scopes) ELSE scopes
    /\ exc' = Raise("KeyboardInterrupt")
    /\ log' = Append(log, Entry("interrupt", <<>>, {}, "KeyboardInterrupt"))
    /\ UNCHANGED <<names, posargs, runner, queue, results, cur, pc, fs>>

NextInt == Next \/ Interrupt

SpecInt == Init /\ [][NextInt]_vars

\* ============================================================ claims
LogIdx == 1..Len(log)
\* A session has ended and the next one has not started.
Ended == cur = "none" /\ results # <<>>
\* The session the log belongs to.
LogSession ==
    IF cur # "none" THEN cur
    ELSE IF results # <<>> THEN results[Len(results)].name ELSE "none"
\* The files the active temporary_filename frames created.
Held == UNION {scopes[i].f : i \in 1..Len(scopes)}
ExternalOps == {"export", "poetry_install", "install", "command"}
InstallOps == {"export", "poetry_install", "install"}

\* C1: the scratch file of every temporary_filename scope exists on disk
\* from the moment its name is yielded until the scope exits, and no
\* scratch file exists once its scope has exited, whether the body
\* returned or raised: every bound name of an active frame is a file on
\* disk, and every scratch file on disk belongs to an active frame.
C1_ScratchLifetime ==
    /\ \A i \in 1..Len(scopes) : scopes[i].tmp_name \subseteq Live
    /\ Live \subseteq Held
    /\ \A i \in LogIdx : log[i].op = "unlink" /\ log[i].err = "none" =>
            log[i].file # {} /\ (log[i].file \cap Held = {})

\* C1 witness: a scope whose body raised has exited and its file is gone.
C1_Witness ==
    /\ Running
    /\ exc.type = "CommandFailed"
    /\ scopes = <<>>
    /\ \E i \in LogIdx : log[i].op = "unlink" /\ log[i].err = "none"
                         /\ log[i].file # {} /\ log[i].file \cap Live = {}

\* C2: once a session has terminated, whichever step failed, no scratch
\* file exists.
C2_NoScratchAtEnd == Ended => Live = {}

\* C2 witness: the safety session ended with its nested install failing,
\* after both of its scratch files had been created.
C2_Witness ==
    /\ Ended
    /\ LogSession = "safety"
    /\ exc.type = "CommandFailed"
    /\ Cardinality({i \in LogIdx : log[i].op = "create" /\ log[i].err = "none"}) = 2
    /\ \E i \in LogIdx : log[i].op = "install" /\ log[i].err = "CommandFailed"

\* The fixed words each session's command starts with.
CommandWords(name) ==
    CASE name = "black" -> <<"black">>
      [] name = "lint" -> <<"flake8">>
      [] name = "safety" -> <<"safety", "check">>
      [] name = "mypy" -> <<"mypy">>
      [] name = "tests" -> <<"pytest">>
      [] name = "typeguard" -> <<"pytest", "--typeguard-packages=hypermodern_python">>
      [] name = "xdoctest" -> <<"python", "-m", "xdoctest", "hypermodern_python">>
      [] name = "docs" -> <<"sphinx-build">>

ForwardingSessions == {"black", "lint", "mypy", "tests", "typeguard", "xdoctest"}

ExportsOf(name) == IF name = "safety" THEN 2 ELSE 1

\* C4: when a session's command is started, every install phase of the
\* session has run and completed, and no install or export step follows
\* the command.
C4_InstallBeforeCommand ==
    \A j \in LogIdx : log[j].op = "command" =>
        /\ \A i \in LogIdx : log[i].op \in InstallOps => i < j /\ log[i].err = "none"
        /\ Cardinality({i \in 1..j : log[i].op = "install"}) = 1
        /\ Cardinality({i \in 1..j : log[i].op = "export"}) = ExportsOf(LogSession)

\* C4 witness: safety ran its command after two exports and one install.
C4_Witness ==
    /\ LogSession = "safety"
    /\ \E j \in LogIdx :
        /\ log[j].op = "command"
        /\ Cardinality({i \in 1..j : log[i].op \in InstallOps}) = 3

\* C5: after an external step of a session fails, no external step is
\* executed (the failed one included), and the error the session carries
\* and ends with is that step's.
C5_NoRetryNoContinue ==
    \A i \in LogIdx : log[i].err = "CommandFailed" =>
        /\ \A j \in LogIdx : j > i => log[j].op \notin ExternalOps
        /\ exc = [type |-> "CommandFailed", at |-> log[i].at]

\* C5 witness: tests ended after its export failed, with no install and
\* no command.
C5_Witness ==
    /\ Ended
    /\ LogSession = "tests"
    /\ \E i \in LogIdx : log[i].op = "export" /\ log[i].err = "CommandFailed"
    /\ \A i \in LogIdx : log[i].op \notin {"install", "command"}

\* C6 as stated: when the body of a scope raised and the deletion of the
\* scratch file then failed, the error that propagates is the body's.
C6_BodyErrorNotMasked ==
    \A i, j \in LogIdx :
        /\ i < j
        /\ log[i].err = "CommandFailed"
        /\ log[j].op = "unlink"
        /\ log[j].err = "FileNotFoundError"
        => exc = [type |-> "CommandFailed", at |-> log[i].at]

\* C7 as stated: when the creation of the scratch file fails, the body is
\* not entered, no deletion is attempted and the error the caller sees is
\* the creation failure.
C7_CreationErrorSeen ==
    \A i \in LogIdx : log[i].op = "create" /\ log[i].err = "OSError" =>
        /\ \A j \in LogIdx : j > i => log[j].op \notin (ExternalOps \cup {"bind"})
        /\ \A j \in LogIdx : j > i /\ log[j].op = "unlink" => log[j].file # {}
        /\ exc.type = "OSError"

\* C8 as stated: when the command phase of a session begins, no manifest
\* scratch file of the session exists.
C8_Original == Normal /\ instr.op = "run" => Live = {}

\* C8 amended: every install reads the manifest exported just before it in
\* the same scope; when the command phase begins no scratch file exists,
\* except in safety, where exactly the outer manifest that the command
\* scans exists and the manifest of the nested install is gone.
C8_ManifestDiscarded ==
    /\ \A i \in LogIdx : log[i].op = "install" =>
            /\ i > 1
            /\ log[i - 1].op = "export"
            /\ log[i - 1].file = log[i].file
            /\ log[i].file # {}
    /\ Normal /\ instr.op = "run" =>
            IF cur = "safety"
            THEN /\ Len(scopes) = 1
                 /\ Live = Top.tmp_name
                 /\ Cardinality(Live) = 1
                 /\ \A i \in LogIdx : log[i].op = "install" => log[i].file \cap Live = {}
            ELSE Live = {}

\* C8 witness: safety is about to run its command and only one scratch
\* file, not the one its install used, is left.
C8_Witness ==
    /\ cur = "safety"
    /\ Normal
    /\ instr.op = "run"
    /\ Cardinality(Live) = 1
    /\ \E i \in LogIdx : log[i].op = "install" /\ log[i].err = "none"
                         /\ log[i].file \cap Live = {}

\* The sessions started so far followed by those still selected.
Schedule ==
    [i \in 1..Len(results) |-> results[i].name]
    \o (IF cur # "none" THEN <<cur>> ELSE <<>>)
    \o queue

\* C9: an invocation naming no session runs lint, safety, mypy, tests, in
\* that order, and nothing else.
C9_DefaultSessions ==
    names = <<>> =>
        /\ Schedule = <<"lint", "safety", "mypy", "tests">>
        /\ runner = "done" => Len(results) = 4

\* C9 witness: a run without names has finished its four sessions.
C9_Witness ==
    /\ names = <<>>
    /\ runner = "done"
    /\ [i \in 1..Len(results) |-> results[i].name] = <<"lint", "safety", "mypy", "tests">>

\* C10 as stated: when a session was interrupted, no scratch file is left
\* once the session has ended.
C10_InterruptReleases ==
    Ended /\ (\E i \in LogIdx : log[i].op = "interrupt") => Live = {}

\* The packages each session asks install_with_constraints for.
Packages(name) ==
    CASE name = "black" -> <<"black">>
      [] name = "lint" -> <<"flake8", "flake8-annotations", "flake8-bandit", "flake8-black",
                            "flake8-bugbear", "flake8-docstrings", "flake8-import-order",
                            "darglint">>
      [] name = "safety" -> <<"safety">>
      [] name = "mypy" -> <<"mypy">>
      [] name = "tests" -> <<"coverage[toml]", "pytest", "pytest-cov", "pytest-mock">>
      [] name = "typeguard" -> <<"pytest", "pytest-mock", "typeguard">>
      [] name = "xdoctest" -> <<"xdoctest">>
      [] name = "docs" -> <<"sphinx", "sphinx-autodoc-typehints">>
      [] OTHER -> <<>>

\* The stack depth of the frame of the session's install_with_constraints
\* call: nested in safety, outermost elsewhere.
IwcDepth == IF LogSession = "safety" THEN 2 ELSE 1
Creates == {i \in LogIdx : log[i].op = "create"}
Installs == {i \in LogIdx : log[i].op = "install"}
\* The poetry exports made by install_with_constraints (with hashes).
IwcExports ==
    {i \in LogIdx : log[i].op = "export"
                    /\ \A k \in 1..Len(log[i].argv) : log[i].argv[k] # "--without-hashes"}
\* The session's install_with_constraints call has been entered and left.
IwcOver == Cardinality(Creates) >= IwcDepth /\ Len(scopes) < IwcDepth

\* C11 as stated: every call of install_with_constraints, once over, has
\* invoked the installer exactly once after exactly one successful export
\* (read for the calls that got as far as running poetry export).
C11_Original ==
    IwcOver /\ IwcExports # {} =>
        /\ Cardinality(Installs) = 1
        /\ Cardinality({i \in IwcExports : log[i].err = "none"}) = 1

\* C11 amended: a call of install_with_constraints invokes the installer
\* at most once, exactly once when its export succeeded and not at all
\* when the scratch file creation or the export failed; the one invocation
\* directly follows the one successful export, carries all requested
\* packages after a constraint flag bound to the exported manifest, finds
\* that manifest on disk, and the manifest is unlinked only afterwards.
C11_InstallOnce ==
    /\ Cardinality(Installs) <= 1
    /\ Cardinality(IwcExports) <= 1
    /\ \A i \in Installs :
        /\ i - 1 \in IwcExports
        /\ log[i - 1].err = "none"
        /\ log[i].file = log[i - 1].file
        /\ Cardinality(log[i].file) = 1
        /\ log[i].argv = <<ConstraintArg>> \o Packages(LogSession)
        /\ \A j \in LogIdx : log[j].op = "unlink" /\ log[j].file = log[i].file => j > i
        /\ i = Len(log) => /\ log[i].file \subseteq Live
                           /\ \A p \in log[i].file : fs[p] = "requirements"
        /\ IwcOver => log[i].file \cap Live = {}
    /\ IwcOver /\ (\E i \in IwcExports : log[i].err = "none") => Cardinality(Installs) = 1
    /\ IwcOver /\ (\A i \in IwcExports : log[i].err # "none") => Installs = {}

\* C11 witness: the nested call in safety is over, its installer ran once
\* on the manifest just exported and that manifest is gone.
C11_Witness ==
    /\ cur = "safety"
    /\ IwcOver
    /\ \E i \in Installs : /\ log[i].err = "none"
                           /\ log[i - 1].op = "export"
                           /\ log[i].file = log[i - 1].file
                           /\ log[i].file \cap Live = {}

\* C12: the selected sessions run one after another in selection order and
\* none is dropped after a failure; a session starts from a clean state
\* whatever happened before it; a session counts as failed iff one of its
\* steps failed; and the run's exit status is non-zero iff some session
\* failed.
C12_AllSessionsRun ==
    /\ Schedule = SelectSessions(names)
    /\ Running /\ log = <<>> => pc = 1 /\ exc = NoExc /\ scopes = <<>> /\ Live = {}
    /\ Ended => (results[Len(results)].ok <=>
                    /\ \A i \in LogIdx : log[i].err = "none"
                    /\ \E i \in LogIdx : log[i].op = "command")
    /\ runner = "done" =>
        /\ Len(results) = Len(SelectSessions(names))
        /\ ExitStatus # 0 <=> \E i \in 1..Len(results) : ~results[i].ok

\* C12 witness: a finished run whose second session failed and whose third
\* session then ran and succeeded, with a non-zero exit status.
C12_Witness ==
    /\ runner = "done"
    /\ Len(results) >= 3
    /\ results[1].ok
    /\ ~results[2].ok
    /\ results[3].ok
    /\ ExitStatus = 1

\* The arguments each forwarding session falls back to.
DefaultArgs(name) ==
    CASE name \in {"black", "lint", "mypy"} -> <<"src", "tests", "noxfile.py", "docs/conf.py">>
      [] name = "tests" -> <<"--cov", "-m", "not e2e">>
      [] name = "typeguard" -> <<"-m", "not e2e">>
      [] name = "xdoctest" -> <<"all">>
      [] OTHER -> <<>>

\* C13: with no trailing arguments, the command of black, lint and mypy is
\* run on the four locations, pytest in tests with --cov -m 'not e2e',
\* pytest in typeguard with -m 'not e2e', xdoctest with 'all', each in
\* order after the command's fixed words; safety and docs, which have no
\* default arguments, run their fixed command line.
C13_DefaultArgs ==
    \A i \in LogIdx : log[i].op = "command" /\ posargs = <<>> =>
        /\ LogSession \in ForwardingSessions =>
                log[i].argv = CommandWords(LogSession) \o DefaultArgs(LogSession)
        /\ LogSession = "safety" =>
                log[i].argv = <<"safety", "check", FileArg, "--full-report">>
        /\ LogSession = "docs" =>
                log[i].argv = <<"sphinx-build", "docs", "docs/_build">>

\* C13 witness: lint ran flake8 on the four locations.
C13_Witness ==
    /\ LogSession = "lint"
    /\ posargs = <<>>
    /\ \E i \in LogIdx :
        /\ log[i].op = "command"
        /\ log[i].argv = <<"flake8", "src", "tests", "noxfile.py", "docs/conf.py">>

ReproSessions == {"tests", "typeguard", "xdoctest", "docs"}
PoetryInstalls == {i \in LogIdx : log[i].op = "poetry_install"}

\* C14: in tests, typeguard, xdoctest and docs, poetry install --no-dev is
\* the first step, is run once, and has completed before any scratch
\* file, export or constrained install of the session; black, lint,
\* safety and mypy never run it.
C14_ProjectInstallFirst ==
    /\ LogSession \notin ReproSessions => PoetryInstalls = {}
    /\ LogSession \in ReproSessions =>
        /\ PoetryInstalls = (IF log = <<>> THEN {} ELSE {1})
        /\ \A i \in PoetryInstalls : log[i].argv = <<"poetry", "install", "--no-dev">>
        /\ \A i \in LogIdx : log[i].op \in {"create", "export", "install", "command"} =>
                i > 1 /\ log[1].err = "none"
        /\ Ended => Cardinality(PoetryInstalls) = 1

\* C14 witness: xdoctest exported its manifest after a successful poetry
\* install.
C14_Witness ==
    /\ LogSession = "xdoctest"
    /\ log # <<>>
    /\ log[1].op = "poetry_install"
    /\ log[1].err = "none"
    /\ \E i \in LogIdx : log[i].op = "export"

Externals == {i \in LogIdx : log[i].op \in ExternalOps}
Commands == {i \in LogIdx : log[i].op = "command"}

\* C15: no phase (statement that spawns an external process) of a session
\* run is executed twice, and a run that ends in success has executed its
\* command exactly once, as the last external process.
C15_PhasesOnce ==
    /\ \A i, j \in Externals : i # j => log[i].at # log[j].at
    /\ Cardinality(Commands) <= 1
    /\ Ended /\ exc.type = "none" =>
        /\ Cardinality(Commands) = 1
        /\ \A c \in Commands : log[c].err = "none" /\ \A i \in Externals : i <= c

\* C15 witness: safety ended in success; its command was followed only by
\* the unlink of the outer manifest.
C15_Witness ==
    /\ Ended
    /\ exc.type = "none"
    /\ LogSession = "safety"
    /\ Cardinality(Externals) = 4
    /\ log[Len(log)].op = "unlink"
    /\ log[Len(log) - 1].op = "command"

\* The unlinks of the file the first create of the session made.
OuterUnlinks ==
    {j \in LogIdx : log[j].op = "unlink" /\ log[j].err = "none" /\ log[j].file = log[1].file}

\* C16: in safety the two scratch files have distinct paths; from its
\* export until its own unlink the outer file holds the export without
\* hashes, whatever the nested install_with_constraints does; the command
\* is given the outer file, which then exists with that content and has
\* not been unlinked before the command.
C16_OuterManifestKept ==
    LogSession = "safety" =>
        /\ \A i, j \in Creates : i # j => log[i].file \cap log[j].file = {}
        /\ \A i, j \in 1..Len(scopes) : i # j => scopes[i].f \cap scopes[j].f = {}
        /\ \A e \in LogIdx :
                /\ log[e].op = "export"
                /\ log[e].err = "none"
                /\ log[e].file = log[1].file
                /\ OuterUnlinks = {}
                => \A p \in log[1].file : fs[p] = "requirements without hashes"
        /\ \A c \in Commands :
                /\ log[c].file = log[1].file
                /\ Cardinality(log[c].file) = 1
                /\ \A j \in OuterUnlinks : j > c
                /\ \E j \in 1..c : /\ log[j].op = "unlink"
                                   /\ log[j].err = "none"
                                   /\ log[j].file \cap log[1].file = {}

\* C16 witness: safety has just run its command on the outer manifest,
\* after the nested manifest was unlinked.
C16_Witness ==
    /\ cur = "safety"
    /\ log # <<>>
    /\ log[Len(log)].op = "command"
    /\ log[Len(log)].err = "none"
    /\ log[Len(log)].file = log[1].file
    /\ \A p \in log[1].file : fs[p] = "requirements without hashes"
    /\ Cardinality(Live) = 1
    /\ Cardinality({i \in LogIdx : log[i].op = "unlink"}) = 1

====
